---------------------------- MODULE Spec2Model ----------------------------
(***************************************************************************)
(* HydroVerde relay controller (src/stream.py): a Streamlit script that is *)
(* re-executed top to bottom on every rerun.  One rerun reads the DHT      *)
(* sensor, runs the schedule check, renders the dashboard, handles at most *)
(* one button click and otherwise sleeps five seconds and reruns.          *)
(*                                                                         *)
(* Two lifetimes are modelled as the code has them: st.cache_resource and  *)
(* the GPIO pin live as long as the server process, st.session_state lives *)
(* as long as one browser session.                                         *)
(***************************************************************************)
EXTENDS Integers, Sequences, FiniteSets, TLC

(* Times of day are abstracted to the slots 0 .. Day-1, ordered as         *)
(* datetime.time values are; slot Day-1 is followed by slot 0.             *)
Day == 3
Times == 0 .. (Day - 1)

(* dt_time(5, 30) and dt_time(9, 30), the initial window, as slots.        *)
InitStart == 1
InitEnd == 2

(* Values the DHT11 can deliver; None stands for "no value".               *)
Temps == {21, 22}
Hums == {55}

RELAY_PIN == 17

(* GPIO levels: the relay is active-low.                                   *)
GPIO_HIGH == "HIGH"
GPIO_LOW == "LOW"

VARIABLES
  pc,             \* position of the script run
  clock,          \* wall-clock time of day, as datetime.now().time() reads it
  session_state,  \* st.session_state: a dict, empty for a fresh session
  cache_resource, \* st.cache_resource: memoised results, one per function
  pin_level,      \* output level of RELAY_PIN ("UNSET" before GPIO.setup)
  click,          \* the widget event that triggered this rerun
  last,           \* record of the last script step (history)
  prev_tick,      \* record of the last schedule-driven check (history)
  run,            \* what the current script run has done so far (history)
  hw_inits,       \* how often each hardware set-up body has run (history)
  other           \* a second browser session of the same process, while its
                  \* script thread is not the one taking steps

vars == <<pc, clock, session_state, cache_resource, pin_level, click, last, prev_tick,
          run, hw_inits, other>>

(* The set-up counters stop counting here.                                 *)
MaxCount == 2

(* time.sleep(1) after a manual or resume toast, time.sleep(2) after an    *)
(* update toast, time.sleep(5) between automatic refreshes.                *)
ToastPause == 1
UpdatePause == 2
RefreshInterval == 5

EmptyDict == [k \in {} |-> 0]

Has(d, k) == k \in DOMAIN d

NoTick == [valid |-> FALSE, now |-> 0, start |-> 0, end |-> 0, calls |-> 0]

(* The record kept of a step: what ran, the clock it read, the session,    *)
(* the pin and the last schedule check before it, the GPIO.output calls it *)
(* made, and its input or its local result.                                *)
Step(op, now, calls, arg) ==
  [op |-> op, now |-> now, before |-> session_state, pin_before |-> pin_level,
   prev |-> prev_tick, calls |-> calls, arg |-> arg]

(* The log of the run after a step op that made the GPIO.output calls and  *)
(* slept secs seconds (0: no time.sleep).                                  *)
Ran(op, calls, secs) ==
  [steps |-> Append(run.steps, op),
   writes |-> run.writes \o [i \in 1 .. Len(calls) |-> <<op, calls[i]>>],
   slept |-> IF secs = 0 THEN run.slept ELSE Append(run.slept, secs)]

(* Only one browser session is connected; its id is 1. *)
NoOther ==
  [open |-> FALSE, active |-> 1, pc |-> "setup_gpio", session_state |-> EmptyDict,
   click |-> "none", writers |-> {}]

NoRun == [steps |-> <<>>, writes |-> <<>>, slept |-> <<>>]

Count(n) == IF n < MaxCount THEN n + 1 ELSE MaxCount

-----------------------------------------------------------------------------
(* Pure helpers *)

fmt_temperature(t) == ToString(t) \o "°C"

fmt_humidity(h) == ToString(h) \o "%"

(* Variant: the same-day window includes its end. *)
is_on_schedule_EndInclusive(now, start, end) ==
  IF start > end
    THEN (now >= start \/ now < end)
    ELSE (start <= now /\ now <= end)

(* Variant: an empty window is taken for an overnight one. *)
is_on_schedule_EqualIsOvernight(now, start, end) ==
  IF start >= end
    THEN (now >= start \/ now < end)
    ELSE (start <= now /\ now < end)

(* lines 97-105: the schedule decision *)
is_on_schedule(now, start, end) ==
  IF start > end
    THEN (now >= start \/ now < end)
    ELSE (start <= now /\ now < end)

(* Variant: the pin is written on every check, matching status or not. *)
check_and_control_relay_AlwaysWrites(ss, now) ==
  IF ss.manual_override
    THEN [ss |-> ss, calls |-> <<>>, on |-> "skipped"]
    ELSE LET state == ss.relay_state
             on == is_on_schedule(now, state.start_time, state.end_time)
         IN  IF on
               THEN [ss |-> [ss EXCEPT !.relay_state.status = "ON"],
                     calls |-> <<GPIO_LOW>>, on |-> on]
               ELSE [ss |-> [ss EXCEPT !.relay_state.status = "OFF"],
                     calls |-> <<GPIO_HIGH>>, on |-> on]

(* Variant: the early return on manual_override is missing. *)
check_and_control_relay_IgnoresOverride(ss, now) ==
  LET state == ss.relay_state
      on == is_on_schedule(now, state.start_time, state.end_time)
  IN  IF on /\ state.status = "OFF"
        THEN [ss |-> [ss EXCEPT !.relay_state.status = "ON"],
              calls |-> <<GPIO_LOW>>, on |-> on]
      ELSE IF ~on /\ state.status = "ON"
        THEN [ss |-> [ss EXCEPT !.relay_state.status = "OFF"],
              calls |-> <<GPIO_HIGH>>, on |-> on]
      ELSE [ss |-> ss, calls |-> <<>>, on |-> on]

(* Variant: the pin is written but the recorded status is not updated. *)
check_and_control_relay_StaleStatus(ss, now) ==
  IF ss.manual_override
    THEN [ss |-> ss, calls |-> <<>>, on |-> "skipped"]
    ELSE LET state == ss.relay_state
             on == is_on_schedule(now, state.start_time, state.end_time)
         IN  IF on /\ state.status = "OFF"
               THEN [ss |-> ss, calls |-> <<GPIO_LOW>>, on |-> on]
             ELSE IF ~on /\ state.status = "ON"
               THEN [ss |-> ss, calls |-> <<GPIO_HIGH>>, on |-> on]
             ELSE [ss |-> ss, calls |-> <<>>, on |-> on]

(* lines 86-116: returns the new session state, the GPIO.output calls and  *)
(* the local is_on_schedule ("skipped" when the override returns early)    *)
check_and_control_relay(ss, now) ==
  IF ss.manual_override
    THEN [ss |-> ss, calls |-> <<>>, on |-> "skipped"]
    ELSE LET state == ss.relay_state
             on == is_on_schedule(now, state.start_time, state.end_time)
         IN  IF on /\ state.status = "OFF"
               THEN [ss |-> [ss EXCEPT !.relay_state.status = "ON"],
                     calls |-> <<GPIO_LOW>>, on |-> on]
             ELSE IF ~on /\ state.status = "ON"
               THEN [ss |-> [ss EXCEPT !.relay_state.status = "OFF"],
                     calls |-> <<GPIO_HIGH>>, on |-> on]
             ELSE [ss |-> ss, calls |-> <<>>, on |-> on]

(* The level the pin shows after a sequence of GPIO.output calls.          *)
Output(level, calls) == IF calls = <<>> THEN level ELSE calls[Len(calls)]


Opt(S) == {<<>>} \cup {<<x>> : x \in S}

(* What one pass over lines 74-75 can do: both properties deliver a value  *)
(* or None, or a property raises RuntimeError or another Exception.        *)
ReadOutcomes ==
  [kind : {"values"}, temperature : Opt(Temps), humidity : Opt(Hums)]
    \cup [kind : {"RuntimeError", "Exception"}, temperature : {<<>>}, humidity : {<<>>}]

(* Variant: a failed read clears the stored reading. *)
read_sensor_data_ClearsOnFailure(ss, dev, r) ==
  IF dev = "None"
    THEN [ss |-> ss, raised |-> FALSE]
  ELSE IF r.kind = "values" /\ r.temperature # <<>> /\ r.humidity # <<>>
    THEN [ss |-> [ss EXCEPT !.sensor_data =
                    [temperature |-> fmt_temperature(r.temperature[1]),
                     humidity |-> fmt_humidity(r.humidity[1])]],
          raised |-> FALSE]
  ELSE [ss |-> [ss EXCEPT !.sensor_data = [temperature |-> "N/A", humidity |-> "N/A"]],
        raised |-> FALSE]

(* Variant: each value is stored on its own when it is not None. *)
read_sensor_data_Independent(ss, dev, r) ==
  IF dev = "None" \/ r.kind # "values"
    THEN [ss |-> ss, raised |-> FALSE]
    ELSE LET a == IF r.temperature # <<>>
                    THEN [ss EXCEPT !.sensor_data.temperature =
                                      fmt_temperature(r.temperature[1])]
                    ELSE ss
         IN  [ss |-> IF r.humidity # <<>>
                       THEN [a EXCEPT !.sensor_data.humidity = fmt_humidity(r.humidity[1])]
                       ELSE a,
              raised |-> FALSE]

(* lines 68-84: the session state after the read, and whether an exception *)
(* leaves the function; dev is dht_device.  Both except clauses only print. *)
read_sensor_data(ss, dev, r) ==
  IF dev = "None"
    THEN [ss |-> ss, raised |-> FALSE]
  ELSE IF r.kind = "values"
    THEN IF r.temperature # <<>> /\ r.humidity # <<>>
           THEN [ss |-> [ss EXCEPT !.sensor_data =
                           [temperature |-> fmt_temperature(r.temperature[1]),
                            humidity |-> fmt_humidity(r.humidity[1])]],
                 raised |-> FALSE]
           ELSE [ss |-> ss, raised |-> FALSE]
  ELSE IF r.kind = "RuntimeError"
    THEN [ss |-> ss, raised |-> FALSE]
  ELSE [ss |-> ss, raised |-> FALSE]

(* lines 51-64: keys are created only when the session does not have them *)
init_session_state(ss) ==
  LET a == IF Has(ss, "relay_state") THEN ss
           ELSE ss @@ ("relay_state" :>
                  [start_time |-> InitStart, end_time |-> InitEnd, status |-> "OFF"])
      b == IF Has(a, "sensor_data") THEN a
           ELSE a @@ ("sensor_data" :> [temperature |-> "N/A", humidity |-> "N/A"])
  IN  IF Has(b, "manual_override") THEN b
      ELSE b @@ ("manual_override" :> FALSE)

(* Variant: resuming also drives the relay to its default. *)
resume_schedule_ResetsRelay(ss) ==
  [ss |-> [ss EXCEPT !.manual_override = FALSE, !.relay_state.status = "OFF"],
   calls |-> <<GPIO_HIGH>>]

(* Variant: resuming shows the toast but leaves the override flag set. *)
resume_schedule_KeepsOverride(ss) == [ss |-> ss, calls |-> <<>>]

(* line 149: the Resume button's handler *)
resume_schedule(ss) == [ss |-> [ss EXCEPT !.manual_override = FALSE], calls |-> <<>>]

(* Variant: the manual command does not set the override flag. *)
manual_command_NoOverride(ss, c) ==
  [ss |-> [ss EXCEPT !.relay_state.status = c],
   calls |-> <<IF c = "ON" THEN GPIO_LOW ELSE GPIO_HIGH>>]

(* lines 159-161 and 168-170: the handlers of the two manual buttons *)
manual_command(ss, c) ==
  [ss |-> [ss EXCEPT !.relay_state.status = c, !.manual_override = TRUE],
   calls |-> <<IF c = "ON" THEN GPIO_LOW ELSE GPIO_HIGH>>]

(* Variant: the handler leaves the re-check to the next periodic Tick. *)
update_schedule_NoRecheck(ss, s, e, now) ==
  LET a == [ss EXCEPT !.relay_state.start_time = s, !.relay_state.end_time = e]
      b == IF a.manual_override THEN [a EXCEPT !.manual_override = FALSE] ELSE a
  IN  [ss |-> b, calls |-> <<>>, on |-> "skipped"]

(* lines 198-208: the Update Schedule handler, its re-check included *)
update_schedule(ss, s, e, now) ==
  LET a == [ss EXCEPT !.relay_state.start_time = s, !.relay_state.end_time = e]
      b == IF a.manual_override THEN [a EXCEPT !.manual_override = FALSE] ELSE a
  IN  check_and_control_relay(b, now)

(* The buttons a rendered page offers: Resume only under override (146-148), *)
(* each manual button unless disabled by the status (157-158, 166-167),      *)
(* Update Schedule always (197).                                             *)
Offered(ss) ==
  (IF ss.manual_override THEN {"resume"} ELSE {})
    \cup (IF ss.relay_state.status = "ON" THEN {} ELSE {"on"})
    \cup (IF ss.relay_state.status = "OFF" THEN {} ELSE {"off"})
    \cup {"update"}

Command(b) == IF b = "on" THEN "ON" ELSE "OFF"

-----------------------------------------------------------------------------
(* The script, one action per step *)

Init ==
  /\ pc = "setup_gpio"
  /\ clock \in Times
  /\ session_state = EmptyDict
  /\ cache_resource = EmptyDict
  /\ pin_level = "UNSET"
  /\ click = "none"
  /\ prev_tick = NoTick
  /\ last = Step("start", "none", <<>>, "none")
  /\ run = NoRun
  /\ hw_inits = [setup_gpio |-> 0, setup_dht_sensor |-> 0]
  /\ other = NoOther

(* Variant: setup_gpio without @st.cache_resource, its body runs every run. *)
setup_gpio_Uncached ==
  /\ pc = "setup_gpio"
  /\ cache_resource' = [k \in DOMAIN cache_resource \cup {"setup_gpio"} |->
                          IF k = "setup_gpio" THEN RELAY_PIN ELSE cache_resource[k]]
  /\ pin_level' = GPIO_HIGH
  /\ hw_inits' = [hw_inits EXCEPT !.setup_gpio = Count(@)]
  /\ last' = Step("setup_gpio", "none", <<GPIO_HIGH>>, "miss")
  /\ run' = [steps |-> <<"setup_gpio">>,
             writes |-> <<<<"setup_gpio", GPIO_HIGH>>>>, slept |-> <<>>]
  /\ pc' = "setup_dht_sensor"
  /\ UNCHANGED <<clock, session_state, click, prev_tick, other>>

(* lines 24-32, 46: the body runs only on a cache miss *)
setup_gpio ==
  /\ pc = "setup_gpio"
  /\ IF Has(cache_resource, "setup_gpio")
       THEN /\ UNCHANGED <<cache_resource, pin_level, hw_inits>>
            /\ last' = Step("setup_gpio", "none", <<>>, "hit")
            /\ run' = [steps |-> <<"setup_gpio">>, writes |-> <<>>, slept |-> <<>>]
       ELSE /\ cache_resource' = cache_resource @@ ("setup_gpio" :> RELAY_PIN)
            /\ pin_level' = GPIO_HIGH
            /\ hw_inits' = [hw_inits EXCEPT !.setup_gpio = Count(@)]
            /\ last' = Step("setup_gpio", "none", <<GPIO_HIGH>>, "miss")
            /\ run' = [steps |-> <<"setup_gpio">>,
                       writes |-> <<<<"setup_gpio", GPIO_HIGH>>>>, slept |-> <<>>]
  /\ pc' = "setup_dht_sensor"
  /\ UNCHANGED <<clock, session_state, click, prev_tick, other>>

(* Variant: a failed initialisation is not kept, the next run tries again. *)
setup_dht_sensor_RetriesNone ==
  /\ pc = "setup_dht_sensor"
  /\ IF Has(cache_resource, "setup_dht_sensor") /\ cache_resource["setup_dht_sensor"] # "None"
       THEN /\ UNCHANGED <<cache_resource, hw_inits>>
            /\ last' = Step("setup_dht_sensor", "none", <<>>, "hit")
       ELSE \E dev \in {"DHT11", "None"} :
              /\ cache_resource' =
                   [k \in DOMAIN cache_resource \cup {"setup_dht_sensor"} |->
                      IF k = "setup_dht_sensor" THEN dev ELSE cache_resource[k]]
              /\ hw_inits' = [hw_inits EXCEPT !.setup_dht_sensor = Count(@)]
              /\ last' = Step("setup_dht_sensor", "none", <<>>, "miss")
  /\ run' = Ran("setup_dht_sensor", <<>>, 0)
  /\ pc' = "session_init"
  /\ UNCHANGED <<clock, session_state, pin_level, click, prev_tick, other>>

(* lines 34-43, 47: the constructor succeeds or raises; None is cached too *)
setup_dht_sensor ==
  /\ pc = "setup_dht_sensor"
  /\ IF Has(cache_resource, "setup_dht_sensor")
       THEN /\ UNCHANGED <<cache_resource, hw_inits>>
            /\ last' = Step("setup_dht_sensor", "none", <<>>, "hit")
       ELSE \E dev \in {"DHT11", "None"} :
              /\ cache_resource' = cache_resource @@ ("setup_dht_sensor" :> dev)
              /\ hw_inits' = [hw_inits EXCEPT !.setup_dht_sensor = Count(@)]
              /\ last' = Step("setup_dht_sensor", "none", <<>>, "miss")
  /\ run' = Ran("setup_dht_sensor", <<>>, 0)
  /\ pc' = "session_init"
  /\ UNCHANGED <<clock, session_state, pin_level, click, prev_tick, other>>

dht_device == cache_resource["setup_dht_sensor"]

(* Variant: the script goes from the session set-up straight to the check. *)
SessionInit_SkipsRead ==
  /\ pc = "session_init"
  /\ session_state' = init_session_state(session_state)
  /\ last' = Step("SessionInit", "none", <<>>, "none")
  /\ run' = Ran("SessionInit", <<>>, 0)
  /\ pc' = "check_and_control_relay"
  /\ UNCHANGED <<clock, cache_resource, pin_level, click, prev_tick, hw_inits, other>>

(* lines 51-64 *)
SessionInit ==
  /\ pc = "session_init"
  /\ session_state' = init_session_state(session_state)
  /\ last' = Step("SessionInit", "none", <<>>, "none")
  /\ run' = Ran("SessionInit", <<>>, 0)
  /\ pc' = "read_sensor_data"
  /\ UNCHANGED <<clock, cache_resource, pin_level, click, prev_tick, hw_inits, other>>

(* line 120: an exception that left read_sensor_data would end the script  *)
(* run there, before line 121                                             *)
ReadSensor ==
  /\ pc = "read_sensor_data"
  /\ \E r \in ReadOutcomes :
       LET res == read_sensor_data(session_state, dht_device, r)
       IN  /\ session_state' = res.ss
           /\ last' = Step("ReadSensor", "none", <<>>, r)
           /\ pc' = IF res.raised THEN "aborted" ELSE "check_and_control_relay"
  /\ run' = Ran("ReadSensor", <<>>, 0)
  /\ UNCHANGED <<clock, cache_resource, pin_level, click, prev_tick, hw_inits, other>>

(* Variant: a run started by a click goes straight to the handler, without *)
(* the schedule check.                                                     *)
Tick_SkippedOnClick ==
  /\ pc = "check_and_control_relay"
  /\ LET r == IF click = "none" THEN check_and_control_relay(session_state, clock)
              ELSE [ss |-> session_state, calls |-> <<>>, on |-> "skipped"]
     IN  /\ session_state' = r.ss
         /\ pin_level' = Output(pin_level, r.calls)
         /\ last' = Step("Tick", clock, r.calls, r.on)
         /\ prev_tick' = IF session_state.manual_override \/ click # "none" THEN NoTick
                         ELSE [valid |-> TRUE, now |-> clock,
                               start |-> session_state.relay_state.start_time,
                               end |-> session_state.relay_state.end_time,
                               calls |-> Len(r.calls)]
         /\ run' = Ran("Tick", r.calls, 0)
  /\ pc' = "render"
  /\ UNCHANGED <<clock, cache_resource, click, hw_inits, other>>

(* line 121: the periodic Tick *)
Tick ==
  /\ pc = "check_and_control_relay"
  /\ LET r == check_and_control_relay(session_state, clock)
     IN  /\ session_state' = r.ss
         /\ pin_level' = Output(pin_level, r.calls)
         /\ last' = Step("Tick", clock, r.calls, r.on)
         /\ prev_tick' = IF session_state.manual_override THEN NoTick
                         ELSE [valid |-> TRUE, now |-> clock,
                               start |-> session_state.relay_state.start_time,
                               end |-> session_state.relay_state.end_time,
                               calls |-> Len(r.calls)]
         /\ run' = Ran("Tick", r.calls, 0)
  /\ pc' = "render"
  /\ UNCHANGED <<clock, cache_resource, click, hw_inits, other>>

(* lines 125-138: the dashboard shows the session state; nothing changes *)
Render ==
  /\ pc = "render"
  /\ last' = Step("Render", "none", <<>>, "none")
  /\ run' = Ran("Render", <<>>, 0)
  /\ pc' = "controls"
  /\ UNCHANGED <<clock, session_state, cache_resource, pin_level, click, prev_tick,
                 hw_inits, other>>

(* lines 146-152; st.rerun() starts the next run *)
ResumeSchedule ==
  /\ pc = "controls"
  /\ session_state.manual_override
  /\ click = "resume"
  /\ LET r == resume_schedule(session_state)
     IN  /\ session_state' = r.ss
         /\ pin_level' = Output(pin_level, r.calls)
         /\ last' = Step("ResumeSchedule", "none", r.calls, "none")
         /\ run' = Ran("ResumeSchedule", r.calls, ToastPause)
  /\ pc' = "setup_gpio"
  /\ click' = "none"
  /\ UNCHANGED <<clock, cache_resource, prev_tick, hw_inits, other>>

(* Variant: the manual handlers lack st.rerun() and fall through to 215. *)
ManualCommand_NoRerun ==
  /\ pc = "controls"
  /\ click \in {"on", "off"}
  /\ LET r == manual_command(session_state, Command(click))
     IN  /\ session_state' = r.ss
         /\ pin_level' = Output(pin_level, r.calls)
         /\ last' = Step("ManualCommand", "none", r.calls, Command(click))
         /\ run' = Ran("ManualCommand", r.calls, ToastPause)
  /\ prev_tick' = NoTick
  /\ pc' = "sleep"
  /\ click' = "none"
  /\ UNCHANGED <<clock, cache_resource, hw_inits, other>>

(* lines 155-173 *)
ManualCommand ==
  /\ pc = "controls"
  /\ click \in {"on", "off"}
  /\ LET r == manual_command(session_state, Command(click))
     IN  /\ session_state' = r.ss
         /\ pin_level' = Output(pin_level, r.calls)
         /\ last' = Step("ManualCommand", "none", r.calls, Command(click))
         /\ run' = Ran("ManualCommand", r.calls, ToastPause)
  /\ prev_tick' = NoTick
  /\ pc' = "setup_gpio"
  /\ click' = "none"
  /\ UNCHANGED <<clock, cache_resource, hw_inits, other>>

(* lines 185-211: the two time inputs hold whatever the user entered *)
UpdateSchedule ==
  /\ pc = "controls"
  /\ click = "update"
  /\ \E start_time_input \in Times, end_time_input \in Times :
       LET r == update_schedule(session_state, start_time_input, end_time_input, clock)
       IN  /\ session_state' = r.ss
           /\ pin_level' = Output(pin_level, r.calls)
           /\ last' = Step("UpdateSchedule", clock, r.calls,
                           <<start_time_input, end_time_input>>)
           /\ prev_tick' = [valid |-> TRUE, now |-> clock,
                            start |-> start_time_input, end |-> end_time_input,
                            calls |-> Len(r.calls)]
           /\ run' = Ran("UpdateSchedule", r.calls, UpdatePause)
  /\ pc' = "setup_gpio"
  /\ click' = "none"
  /\ UNCHANGED <<clock, cache_resource, hw_inits, other>>

(* No button of this run returned True: the script falls through to 215.   *)
(* A manual button that the Tick of this run has just disabled may or may  *)
(* not report the click that was made on the previous page.                *)
NoCommand ==
  /\ pc = "controls"
  /\ click \notin Offered(session_state)
  /\ last' = Step("NoCommand", "none", <<>>, "none")
  /\ run' = Ran("NoCommand", <<>>, 0)
  /\ pc' = "sleep"
  /\ click' = "none"
  /\ UNCHANGED <<clock, session_state, cache_resource, pin_level, prev_tick, hw_inits, other>>

(* lines 215-216: the run sleeps; the interval elapses or the user presses *)
(* one of the buttons the page offers; either way the script reruns.       *)
Sleep ==
  /\ pc = "sleep"
  /\ \E b \in {"none"} \cup Offered(session_state) : click' = b
  /\ last' = Step("Sleep", "none", <<>>, "none")
  /\ run' = Ran("Sleep", <<>>, RefreshInterval)
  /\ pc' = "setup_gpio"
  /\ UNCHANGED <<clock, session_state, cache_resource, pin_level, prev_tick, hw_inits, other>>

(* The browser page is loaded anew: Streamlit gives the new session an     *)
(* empty st.session_state, which is what the guards of lines 51-64 test;   *)
(* the process, its cache and the pin are untouched.                       *)
NewSession ==
  /\ Has(session_state, "relay_state")
  /\ session_state' = EmptyDict
  /\ click' = "none"
  /\ last' = Step("NewSession", "none", <<>>, "none")
  /\ prev_tick' = NoTick
  /\ run' = [steps |-> <<"NewSession">>, writes |-> <<>>, slept |-> <<>>]
  /\ pc' = "setup_gpio"
  /\ UNCHANGED <<clock, cache_resource, pin_level, hw_inits, other>>

(* Time of day moves on, whatever the script is doing. *)
TimePasses ==
  /\ clock' = (clock + 1) % Day
  /\ UNCHANGED <<pc, session_state, cache_resource, pin_level, click, last, prev_tick,
                 run, hw_inits, other>>

Next ==
  \/ setup_gpio
  \/ setup_dht_sensor
  \/ SessionInit
  \/ ReadSensor
  \/ Tick
  \/ Render
  \/ ResumeSchedule
  \/ ManualCommand
  \/ UpdateSchedule
  \/ NoCommand
  \/ Sleep
  \/ NewSession
  \/ TimePasses

Spec == Init /\ [][Next]_vars

(* A step of the script itself, as opposed to the user reloading the page  *)
(* or time passing.                                                        *)
ScriptStep ==
  \/ setup_gpio
  \/ setup_dht_sensor
  \/ SessionInit
  \/ ReadSensor
  \/ Tick
  \/ Render
  \/ ResumeSchedule
  \/ ManualCommand
  \/ UpdateSchedule
  \/ NoCommand
  \/ Sleep

(* The refresh loop keeps running: every blocking call of the script is a  *)
(* bounded time.sleep followed by st.rerun() (lines 151-152, 172-173,      *)
(* 210-211, 215-216), so the script always takes its next step.            *)
(* Every step of the script changes pc.                                    *)
FairSpec == Spec /\ WF_pc(ScriptStep)

(* A second browser connects to the same process: Streamlit gives it a    *)
(* session of its own, whose st.session_state is empty (the guards of      *)
(* lines 51-64 are per session) and whose script run is a thread of its    *)
(* own; st.cache_resource and the GPIO pin are those of the process.       *)
OpenSecondSession ==
  /\ ~other.open
  /\ other' = [other EXCEPT !.open = TRUE]
  /\ UNCHANGED <<pc, clock, session_state, cache_resource, pin_level, click, last,
                 prev_tick, run, hw_inits>>

(* While this session's run is in time.sleep(5) (line 215), the other      *)
(* session's script thread takes the next steps: nothing in the script     *)
(* orders the runs of two sessions.  The history of the run that is set    *)
(* aside is dropped, except for which sessions have written the pin.       *)
Switch ==
  /\ other.open
  /\ pc = "sleep"
  /\ pc' = other.pc
  /\ session_state' = other.session_state
  /\ click' = other.click
  /\ other' = [open |-> TRUE, active |-> 3 - other.active, pc |-> pc,
               session_state |-> session_state, click |-> click,
               writers |-> other.writers
                             \cup (IF run.writes # <<>> THEN {other.active} ELSE {})]
  /\ last' = Step("Switch", "none", <<>>, "none")
  /\ prev_tick' = NoTick
  /\ run' = [steps |-> <<"Switch">>, writes |-> <<>>, slept |-> <<>>]
  /\ UNCHANGED <<clock, cache_resource, pin_level, hw_inits>>

(* Two browsers on one process, at one time of day, whose users press the  *)
(* manual buttons but leave the schedule form alone and do not reload.     *)
NextTwo ==
  \/ setup_gpio
  \/ setup_dht_sensor
  \/ SessionInit
  \/ ReadSensor
  \/ Tick
  \/ Render
  \/ ResumeSchedule
  \/ ManualCommand
  \/ NoCommand
  \/ Sleep
  \/ OpenSecondSession
  \/ Switch

TwoSessions == Init /\ [][NextTwo]_vars

-----------------------------------------------------------------------------
(* Properties *)

(* The Schedule Evaluator as the specification defines it (section 4.1).   *)
isScheduledOn(now, start, end) ==
  IF start = end THEN FALSE
  ELSE IF start < end THEN (start <= now /\ now < end)
  ELSE (now >= start \/ now < end)

Ready == Has(session_state, "relay_state") /\ Has(session_state, "manual_override")

Level(on) == IF on THEN GPIO_LOW ELSE GPIO_HIGH

(* The last step was the periodic Tick, run with the override off. *)
ScheduledTick == last.op = "Tick" /\ ~last.before.manual_override

(* C1: a Tick with override == false leaves status == ON iff              *)
(* isScheduledOn(now, start, end), and writes the relay driver exactly     *)
(* once (ON level if scheduled, OFF level otherwise) when the scheduled    *)
(* value differed from status before the Tick, and not at all when it      *)
(* already matched.                                                        *)
C1_TickFollowsSchedule ==
  ScheduledTick =>
    LET w == last.before.relay_state
        sched == isScheduledOn(last.now, w.start_time, w.end_time)
        was == (w.status = "ON")
    IN  /\ (session_state.relay_state.status = "ON") <=> sched
        /\ last.calls = IF sched = was THEN <<>> ELSE <<Level(sched)>>
        /\ pin_level = IF sched = was THEN last.pin_before ELSE Level(sched)

C1_Witness ==
  /\ ScheduledTick
  /\ last.before.relay_state.status = "OFF"
  /\ last.before.relay_state.start_time < last.before.relay_state.end_time
  /\ last.before.relay_state.start_time <= last.now
  /\ last.now < last.before.relay_state.end_time
  /\ session_state.relay_state.status = "ON"
  /\ last.calls = <<GPIO_LOW>>

(* C2: while the override set by a ManualCommand is on, every Tick is a    *)
(* no-op (no driver call, status and override unchanged, at any time of    *)
(* day), and within a session the override goes off only by a              *)
(* ResumeSchedule or an UpdateSchedule step.                               *)
C2_OverrideHolds ==
  [][ /\ (pc = "check_and_control_relay" /\ pc' = "render"
            /\ session_state.manual_override)
          => (session_state' = session_state /\ pin_level' = pin_level
                /\ last'.calls = <<>>)
      /\ (Ready /\ session_state.manual_override
            /\ Ready' /\ ~session_state'.manual_override)
          => last'.op \in {"ResumeSchedule", "UpdateSchedule"} ]_vars

C2_Witness ==
  /\ last.op = "Tick"
  /\ last.before.manual_override
  /\ session_state.relay_state.status = "OFF"
  /\ is_on_schedule(last.now, session_state.relay_state.start_time,
                    session_state.relay_state.end_time)

(* What a ManualCommand step does, whatever the status was before it. *)
ManualEffect ==
  last.op = "ManualCommand" =>
    /\ session_state.manual_override
    /\ session_state.relay_state.status = last.arg
    /\ last.calls = <<Level(last.arg = "ON")>>
    /\ pin_level = Level(last.arg = "ON")

(* C3 as stated: ManualCommand(c), c in {ON, OFF}, can be issued in every  *)
(* control state, also when status already equals c, and unconditionally   *)
(* sets override, writes the driver with c and sets status to c.           *)
C3_Original ==
  /\ pc = "sleep" => {"on", "off"} \subseteq Offered(session_state)
  /\ ManualEffect

(* C3 amended: the page offers ManualCommand(c) exactly when status differs *)
(* from c (the button of the current status is disabled); whenever the      *)
(* handler runs it sets override, writes the driver with c and sets status  *)
(* to c without looking at the status.                                      *)
C3_ManualCommand ==
  /\ pc = "sleep" =>
       /\ ("on" \in Offered(session_state)) <=> (session_state.relay_state.status # "ON")
       /\ ("off" \in Offered(session_state)) <=> (session_state.relay_state.status # "OFF")
  /\ ManualEffect

C3_Witness ==
  /\ last.op = "ManualCommand"
  /\ last.arg = "OFF"
  /\ last.before.relay_state.status = "ON"
  /\ ~last.before.manual_override
  /\ session_state.manual_override
  /\ session_state.relay_state.status = "OFF"

(* C4: UpdateSchedule(newStart, newEnd) is available in every state,       *)
(* replaces the window, leaves override == false and, before the handler   *)
(* finishes, makes status == ON iff isScheduledOn(now, newStart, newEnd),  *)
(* writing the driver once when status had to change.                      *)
C4_UpdateSchedule ==
  /\ pc = "sleep" => "update" \in Offered(session_state)
  /\ last.op = "UpdateSchedule" =>
       LET sched == isScheduledOn(last.now, last.arg[1], last.arg[2])
           was == (last.before.relay_state.status = "ON")
       IN  /\ session_state.relay_state.start_time = last.arg[1]
           /\ session_state.relay_state.end_time = last.arg[2]
           /\ ~session_state.manual_override
           /\ (session_state.relay_state.status = "ON") <=> sched
           /\ last.calls = IF sched = was THEN <<>> ELSE <<Level(sched)>>
           /\ pin_level = IF sched = was THEN last.pin_before ELSE Level(sched)
           /\ pc = "setup_gpio"

C4_Witness ==
  /\ last.op = "UpdateSchedule"
  /\ last.before.manual_override
  /\ last.before.relay_state.status = "OFF"
  /\ <<last.before.relay_state.start_time, last.before.relay_state.end_time>> # last.arg
  /\ session_state.relay_state.status = "ON"
  /\ last.calls = <<GPIO_LOW>>

(* C5: ResumeSchedule sets override = false and changes nothing else: the  *)
(* status, the window and the readings stay, and no driver call is made.   *)
C5_ResumeFrame ==
  last.op = "ResumeSchedule" =>
    /\ ~session_state.manual_override
    /\ last.before.manual_override
    /\ session_state.relay_state = last.before.relay_state
    /\ session_state.sensor_data = last.before.sensor_data
    /\ last.calls = <<>>
    /\ pin_level = last.pin_before

C5_Witness ==
  /\ last.op = "ResumeSchedule"
  /\ session_state.relay_state.status = "ON"
  /\ ~is_on_schedule(clock, session_state.relay_state.start_time,
                     session_state.relay_state.end_time)
  /\ pin_level = GPIO_LOW

(* C6: the decision computed inside the Tick is, for start < end, true iff *)
(* start <= now < end and, for start > end, true iff now >= start or       *)
(* now < end: start-inclusive and end-exclusive in both cases.             *)
C6_DecisionMatchesReference ==
  ScheduledTick =>
    LET s == last.before.relay_state.start_time
        e == last.before.relay_state.end_time
        n == last.now
    IN  /\ s < e => (last.arg = (s <= n /\ n < e))
        /\ s > e => (last.arg = (n >= s \/ n < e))

C6_Witness ==
  /\ ScheduledTick
  /\ last.before.relay_state.start_time > last.before.relay_state.end_time
  /\ last.now < last.before.relay_state.end_time
  /\ last.arg = TRUE

(* C7: with start == end the decision is false for every now, so a Tick    *)
(* with override == false never turns the relay ON and turns it OFF if it  *)
(* was ON.                                                                 *)
C7_DegenerateWindow ==
  (ScheduledTick
     /\ last.before.relay_state.start_time = last.before.relay_state.end_time) =>
    /\ last.arg = FALSE
    /\ session_state.relay_state.status = "OFF"
    /\ last.calls = IF last.before.relay_state.status = "ON" THEN <<GPIO_HIGH>> ELSE <<>>
    /\ pin_level = IF last.before.relay_state.status = "ON" THEN GPIO_HIGH
                   ELSE last.pin_before

C7_Witness ==
  /\ ScheduledTick
  /\ last.before.relay_state.start_time = last.before.relay_state.end_time
  /\ last.now = last.before.relay_state.start_time
  /\ last.before.relay_state.status = "ON"
  /\ session_state.relay_state.status = "OFF"

(* The last step was a Tick that directly followed a schedule check made   *)
(* with override == false at the same time of day on the same window.      *)
RepeatedTick ==
  /\ ScheduledTick
  /\ last.prev.valid
  /\ last.prev.now = last.now
  /\ last.prev.start = last.before.relay_state.start_time
  /\ last.prev.end = last.before.relay_state.end_time

(* C8: of two consecutive Ticks with override == false, the same window    *)
(* and the same current time, the second makes no driver call and leaves   *)
(* status unchanged; together they make at most one driver call.           *)
C8_TickIdempotent ==
  RepeatedTick =>
    /\ last.calls = <<>>
    /\ session_state.relay_state.status = last.before.relay_state.status
    /\ pin_level = last.pin_before
    /\ last.prev.calls + Len(last.calls) <= 1

C8_Witness == RepeatedTick /\ last.prev.calls = 1

(* C9 as stated: in every state of the control loop status == ON iff the   *)
(* most recent write to the relay pin was the ON level, and every driver   *)
(* write of Tick, ManualCommand or UpdateSchedule is paired in the same    *)
(* step with setting status to the value written.                          *)
C9_StatusReflectsPin ==
  /\ Ready => ((session_state.relay_state.status = "ON") <=> (pin_level = GPIO_LOW))
  /\ (last.op \in {"Tick", "ManualCommand", "UpdateSchedule"} /\ last.calls # <<>>) =>
       (session_state.relay_state.status = "ON") <=> (last.calls[Len(last.calls)] = GPIO_LOW)

FailedRead(r) == r.kind # "values" \/ r.temperature = <<>> \/ r.humidity = <<>>

(* C10: a sensor read that raises or yields no valid value leaves the      *)
(* stored temperature and humidity as they were, raises nothing to the     *)
(* script, and the Tick of that cycle is the next step.                    *)
C10_FailedReadKeepsReading ==
  (last.op = "ReadSensor" /\ FailedRead(last.arg)) =>
    /\ session_state.sensor_data = last.before.sensor_data
    /\ session_state = last.before
    /\ pc = "check_and_control_relay"

C10_Witness ==
  /\ last.op = "ReadSensor"
  /\ last.arg.kind = "RuntimeError"
  /\ dht_device = "DHT11"
  /\ last.before.sensor_data.temperature = fmt_temperature(22)
  /\ session_state.sensor_data.temperature = fmt_temperature(22)
  /\ pc = "check_and_control_relay"

(* Position of step op in the log of the current run; 0 when it has not run. *)
Pos(op) ==
  IF \E i \in 1 .. Len(run.steps) : run.steps[i] = op
    THEN CHOOSE i \in 1 .. Len(run.steps) : run.steps[i] = op
    ELSE 0

(* The sensor read precedes the Tick and the Tick precedes the rendering. *)
ReadTickRender ==
  /\ Pos("Tick") > 0 => (0 < Pos("ReadSensor") /\ Pos("ReadSensor") < Pos("Tick"))
  /\ Pos("Render") > 0 => (0 < Pos("Tick") /\ Pos("Tick") < Pos("Render"))

(* C11 as stated: in every cycle the sensor read precedes the Tick and the *)
(* Tick precedes the rendering, and no driver write by the schedule logic  *)
(* happens after rendering has begun or without a sensor read before it.   *)
C11_Original ==
  /\ ReadTickRender
  /\ \A i \in 1 .. Len(run.writes) :
       run.writes[i][1] \in {"Tick", "UpdateSchedule"} =>
         /\ 0 < Pos("ReadSensor")
         /\ Pos("ReadSensor") < Pos(run.writes[i][1])
         /\ (Pos("Render") = 0 \/ Pos(run.writes[i][1]) < Pos("Render"))

(* C11 amended: the sensor read precedes the Tick and the Tick precedes    *)
(* the rendering; every schedule check follows the sensor read of its      *)
(* cycle; the only schedule check after rendering has begun is the one the *)
(* UpdateSchedule handler makes, as the last step of its cycle.            *)
C11_Ordering ==
  /\ ReadTickRender
  /\ \A i \in 1 .. Len(run.writes) :
       /\ run.writes[i][1] \in {"setup_gpio", "Tick", "ManualCommand", "UpdateSchedule"}
       /\ run.writes[i][1] = "Tick" =>
            (Pos("Render") = 0 \/ Pos("Tick") < Pos("Render"))
  /\ Pos("UpdateSchedule") > 0 =>
       /\ 0 < Pos("ReadSensor")
       /\ Pos("ReadSensor") < Pos("Tick")
       /\ Pos("Tick") < Pos("Render")
       /\ Pos("Render") < Pos("UpdateSchedule")
       /\ Pos("UpdateSchedule") = Len(run.steps)

C11_Witness ==
  /\ Pos("UpdateSchedule") > 0
  /\ Pos("Render") < Pos("UpdateSchedule")
  /\ \E i \in 1 .. Len(run.writes) : run.writes[i][1] = "UpdateSchedule"

(* C12: across any number of script runs the body of setup_gpio (and of   *)
(* setup_dht_sensor) runs at most once per process; it has run, leaving    *)
(* the pin at the default OFF level, before the first Tick; every later    *)
(* run gets the cached handle and does not touch the pin.                  *)
C12_HardwareInitOnce ==
  /\ hw_inits.setup_gpio <= 1
  /\ hw_inits.setup_dht_sensor <= 1
  /\ Pos("Tick") > 0 =>
       /\ hw_inits.setup_gpio = 1
       /\ Has(cache_resource, "setup_gpio")
       /\ pin_level # "UNSET"
  /\ (last.op = "setup_gpio" /\ last.arg = "miss") =>
       /\ last.pin_before = "UNSET"
       /\ pin_level = GPIO_HIGH
  /\ (last.op = "setup_gpio" /\ last.arg = "hit") =>
       /\ cache_resource["setup_gpio"] = RELAY_PIN
       /\ last.calls = <<>>
       /\ pin_level = last.pin_before
  /\ \A i \in 1 .. Len(run.writes) :
       run.writes[i][1] = "setup_gpio" => (i = 1 /\ run.writes[i][2] = GPIO_HIGH)

C12_Witness ==
  /\ last.op = "setup_gpio"
  /\ last.arg = "hit"
  /\ ~Has(session_state, "relay_state")
  /\ pin_level = GPIO_LOW
  /\ hw_inits.setup_gpio = 1

(* The last step created the control state of a session that had none. *)
FreshControlState == last.op = "SessionInit" /\ ~Has(last.before, "relay_state")

(* C14 as stated: status is initialized to OFF at process start, in the    *)
(* run that sets the driver output to its default OFF, and is not          *)
(* initialized again during the process lifetime; hence whenever the       *)
(* control state is freshly initialized the relay output is OFF too.       *)
C14_Lifecycle ==
  FreshControlState =>
    /\ session_state.relay_state.status = "OFF"
    /\ ~session_state.manual_override
    /\ \E i \in 1 .. Len(run.writes) : run.writes[i] = <<"setup_gpio", GPIO_HIGH>>
    /\ pin_level = GPIO_HIGH

Handlers == {"ResumeSchedule", "ManualCommand", "UpdateSchedule"}

HandledCommand == \E h \in Handlers : Pos(h) > 0

(* C16: the script always has a next step; a run ends only by starting the *)
(* next run; a run without user action does so after the interval sleep    *)
(* and no other sleep; a run that handles ManualCommand, ResumeSchedule or *)
(* UpdateSchedule applies it, pauses briefly and starts the next run       *)
(* without reaching the interval sleep.                                    *)
C16_LoopRestarts ==
  /\ ENABLED ScriptStep
  /\ (pc = "setup_gpio" /\ run.steps # <<>>) =>
       run.steps[Len(run.steps)] \in Handlers \cup {"Sleep", "NewSession"}
  /\ pc = "sleep" => (~HandledCommand /\ run.slept = <<>>)
  /\ last.op = "Sleep" =>
       /\ pc = "setup_gpio"
       /\ ~HandledCommand
       /\ run.slept = <<RefreshInterval>>
  /\ last.op \in Handlers =>
       /\ pc = "setup_gpio"
       /\ Pos("Sleep") = 0
       /\ Pos(last.op) = Len(run.steps)
       /\ run.slept = <<IF last.op = "UpdateSchedule" THEN UpdatePause ELSE ToastPause>>

C16_Witness ==
  /\ last.op = "ManualCommand"
  /\ pc = "setup_gpio"
  /\ run.slept = <<ToastPause>>
  /\ Pos("Sleep") = 0
  /\ session_state.manual_override

SensorFailed == Has(cache_resource, "setup_dht_sensor") /\ dht_device = "None"

(* C17: the sensor is initialized in one attempt; when that attempt        *)
(* failed no later run tries again, every sensor read changes nothing so   *)
(* temperature and humidity stay unknown, and Tick, ManualCommand,         *)
(* ResumeSchedule and UpdateSchedule do what they do with a working sensor. *)
C17_SensorFailDegraded ==
  /\ hw_inits.setup_dht_sensor <= 1
  /\ SensorFailed =>
       /\ hw_inits.setup_dht_sensor = 1
       /\ Has(session_state, "sensor_data") =>
            session_state.sensor_data = [temperature |-> "N/A", humidity |-> "N/A"]
       /\ last.op = "ReadSensor" =>
            (session_state = last.before /\ pc = "check_and_control_relay")
       /\ C1_TickFollowsSchedule
       /\ ManualEffect
       /\ C4_UpdateSchedule
       /\ C5_ResumeFrame

C17_Witness ==
  /\ SensorFailed
  /\ last.op = "ReadSensor"
  /\ last.arg.kind = "values"
  /\ last.arg.temperature # <<>>
  /\ last.arg.humidity # <<>>
  /\ session_state.sensor_data.temperature = "N/A"
  /\ session_state.relay_state.status = "ON"
  /\ Pos("setup_dht_sensor") > 0
  /\ \A i \in 1 .. Len(run.writes) : run.writes[i][1] # "setup_gpio"

(* The last step was a read, by a working sensor, that delivered at least  *)
(* one value.                                                              *)
ValuesRead ==
  /\ last.op = "ReadSensor"
  /\ ~SensorFailed
  /\ last.arg.kind = "values"

(* C18 as stated: each of temperature and humidity is updated by a read    *)
(* that yields a valid value for it, whatever the other value is; a read   *)
(* with only one valid value updates that field and leaves the other.      *)
C18_Original ==
  ValuesRead =>
    /\ session_state.sensor_data.temperature =
         IF last.arg.temperature # <<>> THEN fmt_temperature(last.arg.temperature[1])
         ELSE last.before.sensor_data.temperature
    /\ session_state.sensor_data.humidity =
         IF last.arg.humidity # <<>> THEN fmt_humidity(last.arg.humidity[1])
         ELSE last.before.sensor_data.humidity

(* C18 amended: temperature and humidity are stored together: a read that  *)
(* yields both values updates both fields, a read that yields only one     *)
(* valid value leaves both fields at their prior values; so the two are    *)
(* unknown together until the first read that yields both.                 *)
C18_StoredTogether ==
  /\ ValuesRead =>
       session_state.sensor_data =
         IF last.arg.temperature # <<>> /\ last.arg.humidity # <<>>
           THEN [temperature |-> fmt_temperature(last.arg.temperature[1]),
                 humidity |-> fmt_humidity(last.arg.humidity[1])]
           ELSE last.before.sensor_data
  /\ Has(session_state, "sensor_data") =>
       ((session_state.sensor_data.temperature = "N/A")
          <=> (session_state.sensor_data.humidity = "N/A"))

C18_Witness ==
  /\ ValuesRead
  /\ last.arg.temperature = <<22>>
  /\ last.arg.humidity = <<>>
  /\ last.before.sensor_data.temperature = fmt_temperature(21)
  /\ session_state.sensor_data.temperature = fmt_temperature(21)

(* C19: in the run that handles ManualCommand, ResumeSchedule or           *)
(* UpdateSchedule, the Tick ran before the handler, against the override   *)
(* flag and the window the handler found, and its driver writes precede    *)
(* the handler's; the status after the run is the one the command          *)
(* determines.                                                             *)
C19_TickBeforeCommand ==
  last.op \in Handlers =>
    LET w == last.before.relay_state
    IN  /\ 0 < Pos("Tick") /\ Pos("Tick") < Pos(last.op)
        /\ last.prev.valid <=> ~last.before.manual_override
        /\ last.prev.valid =>
             /\ last.prev.start = w.start_time
             /\ last.prev.end = w.end_time
             /\ (w.status = "ON") <=>
                  isScheduledOn(last.prev.now, w.start_time, w.end_time)
        /\ \A i, j \in 1 .. Len(run.writes) :
             (run.writes[i][1] = "Tick" /\ run.writes[j][1] = last.op) => i < j
        /\ session_state.relay_state.status =
             CASE last.op = "ManualCommand" -> last.arg
               [] last.op = "ResumeSchedule" -> w.status
               [] last.op = "UpdateSchedule" ->
                    IF isScheduledOn(last.now, last.arg[1], last.arg[2])
                      THEN "ON" ELSE "OFF"

(* One run wrote the driver twice: the Tick for the old window, the Update *)
(* Schedule handler for the new one.                                       *)
C19_Witness ==
  /\ last.op = "UpdateSchedule"
  /\ ~last.before.manual_override
  /\ \E i, j \in 1 .. Len(run.writes) :
       /\ i < j
       /\ run.writes[i][1] = "Tick"
       /\ run.writes[j][1] = "UpdateSchedule"
       /\ run.writes[i][2] # run.writes[j][2]

(* The last step was a Tick with the override off that left status and the *)
(* relay pin as the schedule prescribes at that time.                      *)
Reconciled ==
  /\ ScheduledTick
  /\ LET w == session_state.relay_state
         sched == isScheduledOn(last.now, w.start_time, w.end_time)
     IN  /\ (w.status = "ON") <=> sched
         /\ pin_level = Level(sched)

(* C13: after ResumeSchedule, while the session's refresh loop keeps       *)
(* running, a Tick eventually runs with the override off, after which      *)
(* status is ON iff the window prescribes it and the relay pin is at that  *)
(* level; the loop ends only when the page is reloaded.                    *)
C13_ResumeReconciles ==
  (last.op = "ResumeSchedule") ~> (Reconciled \/ last.op = "NewSession")

(* A Tick switched the relay off although the window is empty and no       *)
(* scheduled Tick ran before it in this session since the override: the    *)
(* relay had been switched on by hand and the schedule was resumed.        *)
C13_Witness ==
  /\ Reconciled
  /\ ~last.prev.valid
  /\ last.before.relay_state.status = "ON"
  /\ last.before.relay_state.start_time = last.before.relay_state.end_time
  /\ session_state.relay_state.status = "OFF"
  /\ last.calls = <<GPIO_HIGH>>
  /\ last.pin_before = GPIO_LOW

(* The sessions whose runs have written the relay pin. *)
Writers == other.writers \cup (IF run.writes # <<>> THEN {other.active} ELSE {})

(* A run is under way from its first statement until its st.rerun(). *)
InCycle(p) == p # "setup_gpio"

(* C15: there is exactly one logical actor: no step of one control cycle   *)
(* happens while another cycle is under way, and the relay pin is written  *)
(* by a single control loop only.                                          *)
C15_OneActor ==
  /\ ~(other.open /\ InCycle(pc) /\ InCycle(other.pc))
  /\ Cardinality(Writers) <= 1

=============================================================================
